---------------------------- MODULE Spec2Model ----------------------------
(***************************************************************************)
(* Model of redshift_mcp_server/server.py: the two request handlers        *)
(* read_resource and call_tool, the helpers they call, and the database    *)
(* driver they talk to.                                                    *)
(*                                                                         *)
(* Text is a sequence of fragments (strings) whose concatenation is the    *)
(* text.  Text that comes from a caller (a URI, a tool argument, a value   *)
(* of a result set) is one character per fragment, so that slicing,        *)
(* splitting and matching work on characters as they do in the source; a   *)
(* literal of the source that is only ever concatenated is one fragment.   *)
(*                                                                         *)
(* The handlers are coroutines without a single await in their bodies, so  *)
(* each runs to completion in one step of the event loop: one action per   *)
(* handler.  The order of what a handler does is kept in its trace.        *)
(***************************************************************************)
EXTENDS Integers, Sequences, FiniteSets, TLC

VARIABLES
    pc,        \* "idle": waiting for a request; "done": a handler has finished
    req,       \* the request being served
    drv,       \* how the driver behaves for this request
    outcome,   \* what the handler gave back to its caller
    trace,     \* the driver events of the handler, in order
    ident,     \* the argument of is_valid_identifier (identifier specification)
    verdict,   \* its result: "none", "accept" or "reject"
    tasks,     \* the requests in flight (concurrent specification)
    conns      \* every connection opened so far, in order (concurrent specification)

vars == <<pc, req, drv, outcome, trace, ident, verdict, tasks, conns>>

---------------------------------------------------------------------------
(* Bounds of the model. *)

MaxParts == 3
MaxRows == 2
MaxIdentLen == 3
NumTasks == 2

---------------------------------------------------------------------------
(* Characters and the string operations of Python the source uses. *)

Letters ==
    {"a","b","c","d","e","f","g","h","i","j","k","l","m",
     "n","o","p","q","r","s","t","u","v","w","x","y","z",
     "A","B","C","D","E","F","G","H","I","J","K","L","M",
     "N","O","P","Q","R","S","T","U","V","W","X","Y","Z"}

Digits == {"0","1","2","3","4","5","6","7","8","9"}

NL == "\n"

\* s.startswith(p)
startswith(s, p) == Len(s) >= Len(p) /\ SubSeq(s, 1, Len(p)) = p

\* s[n:]
slice_from(s, n) == SubSeq(s, n + 1, Len(s))

\* s.split(sep): always at least one part; "" splits to [""]
RECURSIVE split(_, _)
split(s, sep) ==
    IF \A i \in 1..Len(s) : s[i] # sep
    THEN <<s>>
    ELSE LET k == CHOOSE i \in 1..Len(s) :
                      s[i] = sep /\ \A j \in 1..(i - 1) : s[j] # sep
         IN  <<SubSeq(s, 1, k - 1)>> \o split(SubSeq(s, k + 1, Len(s)), sep)

\* sep.join(parts), parts a sequence of texts
RECURSIVE join(_, _)
join(sep, parts) ==
    IF Len(parts) = 0 THEN <<>>
    ELSE IF Len(parts) = 1 THEN parts[1]
    ELSE parts[1] \o sep \o join(sep, Tail(parts))

DigitChar(d) == <<"0","1","2","3","4","5","6","7","8","9">>[d + 1]

RECURSIVE digits(_)
digits(n) == IF n < 10 THEN <<DigitChar(n)>>
             ELSE digits(n \div 10) \o <<DigitChar(n % 10)>>

---------------------------------------------------------------------------
(* Values of a result set: null, an integer or a string. *)

Null == [t |-> "null", i |-> 0, s |-> <<>>]
IntV(n) == [t |-> "int", i |-> n, s |-> <<>>]
StrV(x) == [t |-> "str", i |-> 0, s |-> x]

\* str(v)
str(v) ==
    IF v.t = "null" THEN <<"N","o","n","e">>
    ELSE IF v.t = "int"
         THEN (IF v.i < 0 THEN <<"-">> \o digits(-v.i) ELSE digits(v.i))
         ELSE v.s

\* bool(v) of a value: None, 0 and "" are false
truthy(v) == (v.t = "int" /\ v.i # 0) \/ (v.t = "str" /\ v.s # <<>>)

---------------------------------------------------------------------------
(* Trace events and handler results. *)

Ev(e) == [ev |-> e, sql |-> <<>>, params |-> <<>>]
ExecEv(sql, params) == [ev |-> "execute", sql |-> sql, params |-> params]

\* return of a str (read_resource helpers)
Return(t, tr) ==
    [kind |-> "return", exc |-> "", none |-> FALSE, items |-> 0,
     text |-> t, trace |-> tr]
\* falling off the end of a function: return None
ReturnNone(tr) ==
    [kind |-> "return", exc |-> "", none |-> TRUE, items |-> 0,
     text |-> <<>>, trace |-> tr]
\* return [TextContent(type="text", text=t)]
ReturnContent(t, tr) ==
    [kind |-> "return", exc |-> "", none |-> FALSE, items |-> 1,
     text |-> t, trace |-> tr]
\* raise x(msg)
Raise(x, msg, tr) ==
    [kind |-> "raise", exc |-> x, none |-> FALSE, items |-> 0,
     text |-> msg, trace |-> tr]

Count(tr, e) == Cardinality({i \in 1..Len(tr) : tr[i].ev = e})

---------------------------------------------------------------------------
(* The driver.  drv says what redshift_connector does for one request:     *)
(*   connect      connect() returns a connection (TRUE) or raises          *)
(*   execute      cursor.execute() returns (TRUE) or raises                *)
(*   description  cursor.description: none (no result set) or the columns  *)
(*   rows         the rows of the result set; fetchone() gives the first   *)
(*   fetch        cursor.fetchall() / fetchone() returns (TRUE) or raises  *)
(*   err          str(e) of whatever the driver raises                     *)

DriverErr == <<"driver error">>

Driver(c, e, f, d, r) ==
    [connect |-> c, execute |-> e, fetch |-> f, description |-> d, rows |-> r,
     err |-> DriverErr]

NoDescription == [none |-> TRUE, cols |-> <<>>]
Columns(cs) == [none |-> FALSE, cols |-> cs]

\* a variant that leaves the connection in its default mode, autocommit off
connect_no_autocommit(d) ==
    IF d.connect
    THEN Return(<<>>, <<Ev("connect"), Ev("open")>>)
    ELSE Raise("InterfaceError", d.err, <<Ev("connect")>>)

\* redshift_connector.connect(...); conn.autocommit = True
connect(d) ==
    IF d.connect
    THEN Return(<<>>, <<Ev("connect"), Ev("open"), Ev("autocommit")>>)
    ELSE Raise("InterfaceError", d.err, <<Ev("connect")>>)

\* a variant that executes the statement a second time when the first fails
cursor_execute_retry(d, tr, sql, params) ==
    IF d.execute
    THEN Return(<<>>, Append(tr, ExecEv(sql, params)))
    ELSE Raise("ProgrammingError", d.err,
               Append(Append(tr, ExecEv(sql, params)), ExecEv(sql, params)))

\* cursor.execute(sql, params) on the request's connection
cursor_execute(d, tr, sql, params) ==
    IF d.execute
    THEN Return(<<>>, Append(tr, ExecEv(sql, params)))
    ELSE Raise("ProgrammingError", d.err, Append(tr, ExecEv(sql, params)))

---------------------------------------------------------------------------
(* is_valid_identifier: re.match(r'^[a-zA-Z_][a-zA-Z0-9_]*$', name).       *)
(* Without re.MULTILINE, $ matches at the end of the string and also just  *)
(* before a newline that is the last character of the string.              *)

IdentStart == Letters \cup {"_"}
IdentRest == Letters \cup Digits \cup {"_"}

\* the position after k characters is one where $ matches
AtDollar(name, k) ==
    \/ k = Len(name)
    \/ k = Len(name) - 1 /\ name[Len(name)] = NL

is_valid_identifier(name) ==
    \E k \in 1..Len(name) :
        /\ name[1] \in IdentStart
        /\ \A i \in 2..k : name[i] \in IdentRest
        /\ AtDollar(name, k)

---------------------------------------------------------------------------
(* The statements and the four resource helpers. *)

SchemasSql ==
    <<"\n        SELECT nspname AS schema_name\n        FROM pg_namespace\n        WHERE nspname NOT LIKE 'pg_%'\n            AND nspname != 'information_schema'\n            AND nspname != 'catalog_history'\n        ORDER BY schema_name\n   ">>

TablesSql ==
    <<"\n        SELECT table_name FROM information_schema.tables\n        WHERE table_schema = %s\n        GROUP BY table_name\n        ORDER BY table_name\n   ">>

\* [row[0] for row in rows] joined by newlines; join raises on a value that is no str
first_column_lines(d, tr) ==
    IF ~d.fetch THEN Raise("InterfaceError", d.err, Append(tr, Ev("fetch")))
    ELSE IF \E i \in 1..Len(d.rows) : d.rows[i][1].t # "str"
    THEN Raise("TypeError", <<"sequence item: expected str instance">>,
               Append(tr, Ev("fetch")))
    ELSE Return(join(<<NL>>, [i \in 1..Len(d.rows) |-> d.rows[i][1].s]),
                Append(tr, Ev("fetch")))

_get_schemas(d, tr0) ==
    LET x == cursor_execute(d, Append(tr0, Ev("_get_schemas")), SchemasSql, <<>>)
    IN  IF x.kind = "raise" THEN x ELSE first_column_lines(d, x.trace)

\* a variant that writes the schema into the statement text
_get_tables_interpolated(d, tr0, schema) ==
    LET x == cursor_execute(d, Append(tr0, Ev("_get_tables")),
                            <<"\n        SELECT table_name FROM information_schema.tables\n        WHERE table_schema = '">>
                               \o schema
                               \o <<"'\n        GROUP BY table_name\n        ORDER BY table_name\n   ">>,
                            <<>>)
    IN  IF x.kind = "raise" THEN x ELSE first_column_lines(d, x.trace)

_get_tables(d, tr0, schema) ==
    LET x == cursor_execute(d, Append(tr0, Ev("_get_tables")), TablesSql, <<schema>>)
    IN  IF x.kind = "raise" THEN x ELSE first_column_lines(d, x.trace)

InvalidName(schema, table) ==
    <<"Invalid schema or table name: ">> \o schema \o <<".">> \o table

\* a variant of the DDL helper without its identifier check
_get_table_ddl_unchecked(d, tr0, schema, table) ==
    cursor_execute(d, Append(tr0, Ev("_get_table_ddl")),
                   <<"show table ">> \o schema \o <<".">> \o table, <<>>)

_get_table_ddl(d, tr0, schema, table) ==
    LET tr == Append(tr0, Ev("_get_table_ddl")) IN
    IF ~is_valid_identifier(schema) \/ ~is_valid_identifier(table)
    THEN Raise("ValueError", InvalidName(schema, table), tr)
    ELSE LET x == cursor_execute(d, tr, <<"show table ">> \o schema \o <<".">> \o table, <<>>)
         IN  IF x.kind = "raise" THEN x
             ELSE IF ~d.fetch
                  THEN Raise("InterfaceError", d.err, Append(x.trace, Ev("fetch")))
             ELSE IF Len(d.rows) > 0 /\ truthy(d.rows[1][1])
                  THEN Return(str(d.rows[1][1]), Append(x.trace, Ev("fetch")))
                  ELSE Return(<<"No DDL found for ">> \o schema \o <<".">> \o table,
                              Append(x.trace, Ev("fetch")))

\* a variant of the statistic helper without its identifier check
_get_table_statistic_unchecked(d, tr0, schema, table) ==
    LET x == cursor_execute(d, Append(tr0, Ev("_get_table_statistic")),
                            <<"ANALYZE ">> \o schema \o <<".">> \o table \o <<";">>, <<>>)
    IN  IF x.kind = "raise" THEN x
        ELSE Return(<<"ANALYZE ">> \o schema \o <<".">> \o table
                       \o <<" command executed">>, x.trace)

_get_table_statistic(d, tr0, schema, table) ==
    LET tr == Append(tr0, Ev("_get_table_statistic")) IN
    IF ~is_valid_identifier(schema) \/ ~is_valid_identifier(table)
    THEN Raise("ValueError", InvalidName(schema, table), tr)
    ELSE LET x == cursor_execute(d, tr, <<"ANALYZE ">> \o schema \o <<".">> \o table \o <<";">>, <<>>)
         IN  IF x.kind = "raise" THEN x
             ELSE Return(<<"ANALYZE ">> \o schema \o <<".">> \o table
                            \o <<" command executed">>, x.trace)

---------------------------------------------------------------------------
(* read_resource. *)

rs_scheme == <<"r","s",":","/","/">>

\* the number of characters uri_str[6:] drops
PathOffset == 6

kw_schemas == <<"s","c","h","e","m","a","s">>
kw_tables == <<"t","a","b","l","e","s">>
kw_ddl == <<"d","d","l">>
kw_statistic == <<"s","t","a","t","i","s","t","i","c">>

\* path_parts = uri_str[6:].split('/')
\* a variant that drops the prefix and nothing more
path_parts_of_prefix(uri_str) == split(slice_from(uri_str, Len(rs_scheme)), "/")

path_parts_of(uri_str) == split(slice_from(uri_str, PathOffset), "/")

\* which branch of the if/elif chain a path takes
route(path_parts) ==
    IF path_parts[1] = kw_schemas THEN "schemas"
    ELSE IF Len(path_parts) = 2 /\ path_parts[2] = kw_tables THEN "tables"
    ELSE IF Len(path_parts) = 3 /\ path_parts[3] = kw_ddl THEN "ddl"
    ELSE IF Len(path_parts) = 3 /\ path_parts[3] = kw_statistic THEN "statistic"
    ELSE "none"

\* the if/elif chain: the helper of the branch, or falling off the end
dispatch(d, tr, path_parts) ==
    LET r == route(path_parts) IN
    IF r = "schemas" THEN _get_schemas(d, tr)
    ELSE IF r = "tables" THEN _get_tables(d, tr, path_parts[1])
    ELSE IF r = "ddl" THEN _get_table_ddl(d, tr, path_parts[1], path_parts[2])
    ELSE IF r = "statistic"
         THEN _get_table_statistic(d, tr, path_parts[1], path_parts[2])
    ELSE ReturnNone(tr)

\* a variant of the except clause that answers with text, as call_tool's does
resource_except_soft(r) ==
    IF r.kind = "raise"
    THEN Return(<<"Redshift Error: ">> \o r.text, r.trace)
    ELSE r

\* except Exception as e: raise RuntimeError(f"Redshift Error: {str(e)}")
resource_except(r) ==
    IF r.kind = "raise"
    THEN Raise("RuntimeError", <<"Redshift Error: ">> \o r.text, r.trace)
    ELSE r

\* a variant of the finally clause that closes nothing
finally_close_never(r, bound) == r

\* finally: conn.close().  conn is a local that is bound only once connect() has
\* returned; reading it unbound raises UnboundLocalError, which replaces whatever
\* the try statement was about to return or raise.
finally_close(r, bound) ==
    IF bound
    THEN [r EXCEPT !.trace = Append(@, Ev("close"))]
    ELSE Raise("UnboundLocalError",
               <<"cannot access local variable 'conn' where it is not associated with a value">>,
               r.trace)

read_resource(uri_str, d) ==
    IF ~startswith(uri_str, rs_scheme)
    THEN Raise("ValueError", <<"Invalid URI schema: ">> \o uri_str, <<>>)
    ELSE LET c == connect(d)
             body == IF c.kind = "raise" THEN c
                     ELSE dispatch(d, c.trace, path_parts_of(uri_str))
         IN  finally_close(resource_except(body), c.kind # "raise")

---------------------------------------------------------------------------
(* call_tool. *)

\* a tool argument: args.get(k) is None when the key is absent
Absent == [has |-> FALSE, val |-> <<>>]
Given(v) == [has |-> TRUE, val |-> v]

\* not x, for x = args.get(k): None and '' are false
falsy(a) == ~a.has \/ a.val = <<>>

Resolved(sql) == [ok |-> TRUE, sql |-> sql, msg |-> <<>>]
Rejected(msg) == [ok |-> FALSE, sql |-> <<>>, msg |-> msg]

\* a variant of the argument checks that refuses an absent argument only
resolve_sql_none_only(name, args) ==
    IF name = "execute_sql"
    THEN (IF ~args.sql.has
          THEN Rejected(<<"sql parameter is required when calling execute_sql tool">>)
          ELSE Resolved(args.sql.val))
    ELSE IF name = "analyze_table"
    THEN (IF ~args.schema.has \/ ~args.table.has
          THEN Rejected(<<"'schema' and 'table' parameters are required when calling analyze_table tool">>)
          ELSE Resolved(<<"ANALYZE ">> \o args.schema.val \o <<".">> \o args.table.val))
    ELSE IF name = "get_execution_plan"
    THEN (IF ~args.sql.has
          THEN Rejected(<<"sql parameter is required when calling get_query_plan tool">>)
          ELSE Resolved(<<"EXPLAIN ">> \o args.sql.val))
    ELSE Resolved(<<>>)

\* the if/elif chain that checks the arguments and builds sql; sql stays ''
\* for a name that is none of the three
resolve_sql(name, args) ==
    IF name = "execute_sql"
    THEN (IF falsy(args.sql)
          THEN Rejected(<<"sql parameter is required when calling execute_sql tool">>)
          ELSE Resolved(args.sql.val))
    ELSE IF name = "analyze_table"
    THEN (IF falsy(args.schema) \/ falsy(args.table)
          THEN Rejected(<<"'schema' and 'table' parameters are required when calling analyze_table tool">>)
          ELSE Resolved(<<"ANALYZE ">> \o args.schema.val \o <<".">> \o args.table.val))
    ELSE IF name = "get_execution_plan"
    THEN (IF falsy(args.sql)
          THEN Rejected(<<"sql parameter is required when calling get_query_plan tool">>)
          ELSE Resolved(<<"EXPLAIN ">> \o args.sql.val))
    ELSE Resolved(<<>>)

\* "\n".join([",".join(columns)] + [",".join(map(str, row)) for row in rows])
serialize(columns, rows) ==
    join(<<NL>>,
         <<join(<<",">>, columns)>>
         \o [i \in 1..Len(rows) |->
                join(<<",">>, [j \in 1..Len(rows[i]) |-> str(rows[i][j])])])

\* the body of the with statement
\* a variant of the with body that looks at cursor.description before the name
tool_body_description_first(name, args, sql, d, tr) ==
    LET x == cursor_execute(d, tr, sql, <<>>) IN
    IF x.kind = "raise" THEN x
    ELSE IF d.description.none
    THEN ReturnContent(<<"Successfully execute sql ">> \o sql, x.trace)
    ELSE IF name = "analyze_table"
    THEN ReturnContent(<<"Successfully analyzed table ">> \o args.schema.val
                          \o <<".">> \o args.table.val, x.trace)
    ELSE IF ~d.fetch
    THEN Raise("InterfaceError", d.err, Append(x.trace, Ev("fetch")))
    ELSE ReturnContent(serialize(d.description.cols, d.rows),
                       Append(x.trace, Ev("fetch")))

\* a variant of the with body that takes a result set without rows for no result set
tool_body_empty_as_none(name, args, sql, d, tr) ==
    LET x == cursor_execute(d, tr, sql, <<>>) IN
    IF x.kind = "raise" THEN x
    ELSE IF name = "analyze_table"
    THEN ReturnContent(<<"Successfully analyzed table ">> \o args.schema.val
                          \o <<".">> \o args.table.val, x.trace)
    ELSE IF d.description.none \/ d.rows = <<>>
    THEN ReturnContent(<<"Successfully execute sql ">> \o sql, x.trace)
    ELSE IF ~d.fetch
    THEN Raise("InterfaceError", d.err, Append(x.trace, Ev("fetch")))
    ELSE ReturnContent(serialize(d.description.cols, d.rows),
                       Append(x.trace, Ev("fetch")))

tool_body(name, args, sql, d, tr) ==
    LET x == cursor_execute(d, tr, sql, <<>>) IN
    IF x.kind = "raise" THEN x
    ELSE IF name = "analyze_table"
    THEN ReturnContent(<<"Successfully analyzed table ">> \o args.schema.val
                          \o <<".">> \o args.table.val, x.trace)
    ELSE IF d.description.none
    THEN ReturnContent(<<"Successfully execute sql ">> \o sql, x.trace)
    ELSE IF ~d.fetch
    THEN Raise("InterfaceError", d.err, Append(x.trace, Ev("fetch")))
    ELSE ReturnContent(serialize(d.description.cols, d.rows),
                       Append(x.trace, Ev("fetch")))

\* except Exception as e: return [TextContent(text=f"Error executing query: {str(e)}")]
tool_except(r) ==
    IF r.kind = "raise"
    THEN ReturnContent(<<"Error executing query: ">> \o r.text, r.trace)
    ELSE r

call_tool(name, args, d) ==
    LET rs == resolve_sql(name, args) IN
    IF ~rs.ok
    THEN Raise("ValueError", rs.msg, <<>>)
    ELSE LET c == connect(d)
             body == IF c.kind = "raise" THEN c
                     ELSE tool_body(name, args, rs.sql, d, c.trace)
         IN  finally_close(tool_except(body), c.kind # "raise")

---------------------------------------------------------------------------
(* The requests and driver behaviours the model draws from. *)

Segments ==
    {kw_schemas, kw_tables, kw_ddl, kw_statistic,
     <<"s","1">>, <<"t",";">>, <<"t",NL>>, <<>>}

Heads ==
    {rs_scheme \o <<"/">>, rs_scheme \o <<"x">>, rs_scheme,
     <<"r","s",":","/">>, <<"h","t","t","p",":","/","/">>}

PartLists == UNION {[1..n -> Segments] : n \in 1..MaxParts}

URIs == {h \o join(<<"/">>, ps) : h \in Heads, ps \in PartLists}

Values == {Null, IntV(12), StrV(<<"x">>)}

ColumnLists == {<< <<"a">> >>, << <<"a">>, <<"b">> >>}

RowLists(n) == UNION {[1..k -> [1..n -> Values]] : k \in 0..MaxRows}

\* what the driver can do for a tool call
ToolDrivers ==
    {Driver(FALSE, TRUE, TRUE, NoDescription, <<>>),
     Driver(TRUE, FALSE, TRUE, NoDescription, <<>>),
     Driver(TRUE, TRUE, TRUE, NoDescription, <<>>),
     Driver(TRUE, TRUE, FALSE, Columns(<< <<"a">> >>), <<>>)}
    \cup {Driver(TRUE, TRUE, TRUE, Columns(cs), rs) :
             cs \in ColumnLists, rs \in RowLists(1) \cup RowLists(2)}

\* the result sets must have as many values in a row as there are columns
WellFormed(d) ==
    d.description.none \/ \A i \in 1..Len(d.rows) :
                              Len(d.rows[i]) = Len(d.description.cols)

\* what the driver can do for a resource read: one-column result sets
ResourceRows ==
    {<<>>, << <<StrV(<<"x">>)>> >>, << <<StrV(<<>>)>> >>, << <<Null>> >>,
     << <<StrV(<<"b">>)>>, <<StrV(<<"a">>)>> >>}

ResourceDrivers ==
    {Driver(FALSE, TRUE, TRUE, Columns(<< <<"a">> >>), <<>>),
     Driver(TRUE, FALSE, TRUE, Columns(<< <<"a">> >>), <<>>),
     Driver(TRUE, TRUE, FALSE, Columns(<< <<"a">> >>), <<>>)}
    \cup {Driver(TRUE, TRUE, TRUE, Columns(<< <<"a">> >>), rs) : rs \in ResourceRows}

ArgValues(vs) == {Absent} \cup {Given(v) : v \in vs}

Args(sql, schema, table) == [sql |-> sql, schema |-> schema, table |-> table]

SqlArgs == {Args(q, Absent, Absent) : q \in ArgValues({<<>>, <<"q">>})}

TableArgs ==
    {Args(Absent, s, t) : s \in ArgValues({<<>>, <<"s">>}),
                          t \in ArgValues({<<>>, <<"t",";">>})}

ToolCalls ==
    {<<n, a>> : n \in {"execute_sql", "get_execution_plan", "list_tables"}, a \in SqlArgs}
    \cup {<<"analyze_table", a>> : a \in TableArgs}

Idents ==
    UNION {[1..n -> {"a", "Z", "_", "7", NL, ";"}] : n \in 0..MaxIdentLen}

---------------------------------------------------------------------------
(* The state machine: the server takes a request, the handler runs, the    *)
(* answer goes back to the caller.                                         *)

NoArgs == Args(Absent, Absent, Absent)
NoReq == [handler |-> "none", uri |-> <<>>, name |-> "", args |-> NoArgs]
NoDrv == Driver(FALSE, FALSE, FALSE, NoDescription, <<>>)
NoOutcome == [kind |-> "none", exc |-> "", none |-> FALSE, items |-> 0, text |-> <<>>]

OutcomeOf(r) ==
    [kind |-> r.kind, exc |-> r.exc, none |-> r.none, items |-> r.items,
     text |-> r.text]

\* the slots for requests in flight; a slot serves one request
Tasks == 1..NumTasks

\* a task: its state ("free", "running", "finished"), the handler it runs, the
\* driver events the handler has still to do, the handler's local conn (0 while
\* unbound, else the number of the connection in conns) and what it gives back
FreeTask == [st |-> "free", handler |-> "none", todo |-> <<>>, conn |-> 0,
             kind |-> "none"]

NoTasks == [t \in Tasks |-> FreeTask]

Init ==
    /\ pc = "idle"
    /\ req = NoReq
    /\ drv = NoDrv
    /\ outcome = NoOutcome
    /\ trace = <<>>
    /\ ident = <<>>
    /\ verdict = "none"
    /\ tasks = NoTasks
    /\ conns = <<>>

ReadResource ==
    /\ pc = "idle"
    /\ \E u \in URIs, d \in ResourceDrivers :
          LET r == read_resource(u, d) IN
          /\ req' = [handler |-> "read_resource", uri |-> u, name |-> "",
                     args |-> NoArgs]
          /\ drv' = d
          /\ outcome' = OutcomeOf(r)
          /\ trace' = r.trace
    /\ pc' = "done"
    /\ UNCHANGED <<ident, verdict, tasks, conns>>

CallTool ==
    /\ pc = "idle"
    /\ \E c \in ToolCalls, d \in ToolDrivers :
          LET r == call_tool(c[1], c[2], d) IN
          /\ WellFormed(d)
          /\ req' = [handler |-> "call_tool", uri |-> <<>>, name |-> c[1],
                     args |-> c[2]]
          /\ drv' = d
          /\ outcome' = OutcomeOf(r)
          /\ trace' = r.trace
    /\ pc' = "done"
    /\ UNCHANGED <<ident, verdict, tasks, conns>>

\* the answer has gone to the caller; the server waits for the next request
Respond ==
    /\ pc = "done"
    /\ pc' = "idle"
    /\ req' = NoReq
    /\ drv' = NoDrv
    /\ outcome' = NoOutcome
    /\ trace' = <<>>
    /\ UNCHANGED <<ident, verdict, tasks, conns>>

Next == ReadResource \/ CallTool \/ Respond

Spec == Init /\ [][Next]_vars

(* The identifier specification: is_valid_identifier applied to every name  *)
(* of Idents.                                                               *)

InitIdent ==
    /\ pc = "idle"
    /\ req = NoReq
    /\ drv = NoDrv
    /\ outcome = NoOutcome
    /\ trace = <<>>
    /\ ident \in Idents
    /\ verdict = "none"
    /\ tasks = NoTasks
    /\ conns = <<>>

Validate ==
    /\ pc = "idle"
    /\ verdict = "none"
    /\ verdict' = IF is_valid_identifier(ident) THEN "accept" ELSE "reject"
    /\ pc' = "done"
    /\ UNCHANGED <<req, drv, outcome, trace, ident, tasks, conns>>

NextIdent == Validate

SpecIdent == InitIdent /\ [][NextIdent]_vars

---------------------------------------------------------------------------
(* What the properties speak of. *)

Done(h) == pc = "done" /\ req.handler = h
HasPrefix == startswith(req.uri, rs_scheme)
Path == path_parts_of(req.uri)
Opens == Count(trace, "open")
Closes == Count(trace, "close")
Executes == Count(trace, "execute")

\* the request is on the DDL or the statistic path and a name fails the check
IdentifierFails ==
    /\ HasPrefix
    /\ route(Path) \in {"ddl", "statistic"}
    /\ ~is_valid_identifier(Path[1]) \/ ~is_valid_identifier(Path[2])

\* the four declared shapes of a path
DeclaredShape(p) ==
    \/ p = <<kw_schemas>>
    \/ Len(p) = 2 /\ p[2] = kw_tables
    \/ Len(p) = 3 /\ p[3] = kw_ddl
    \/ Len(p) = 3 /\ p[3] = kw_statistic

\* a required argument of the tool is missing or empty
ArgumentMissing ==
    \/ req.name \in {"execute_sql", "get_execution_plan"} /\ falsy(req.args.sql)
    \/ req.name = "analyze_table"
          /\ (falsy(req.args.schema) \/ falsy(req.args.table))

(* C1: when a handler has returned or raised, every connection the request  *)
(* opened has been closed exactly once, as the last thing the handler did,  *)
(* and nothing was closed that had not been opened before.                  *)
C1_ClosedExactlyOnce ==
    pc = "done" =>
        /\ Opens <= 1
        /\ Closes = Opens
        /\ \A i \in 1..Len(trace) :
              trace[i].ev = "close" => \E j \in 1..(i - 1) : trace[j].ev = "open"
        /\ Opens = 1 => trace[Len(trace)].ev = "close"

\* a resource read whose identifier check failed after the connection was opened
C1_Witness ==
    /\ Done("read_resource") /\ IdentifierFails
    /\ Opens = 1 /\ Closes = 1 /\ outcome.kind = "raise"

(* C2 as stated: a tool call whose required arguments are present always    *)
(* returns a single text item, whatever fails; no exception reaches the     *)
(* caller.                                                                  *)
C2_ToolAlwaysReturnsText ==
    (Done("call_tool") /\ ~ArgumentMissing) =>
        outcome.kind = "return" /\ outcome.items = 1

(* C3 as stated: on the DDL and statistic paths a request whose schema or   *)
(* table fails the identifier check opens no connection.                    *)
C3_NoConnectionBeforeCheck ==
    (Done("read_resource") /\ IdentifierFails) => Opens = 0

(* C3 as amended: such a request fails after the connection attempt and     *)
(* before any statement: it opens exactly one connection when connect       *)
(* succeeds (none only when connect itself fails), executes nothing on it,  *)
(* closes it and raises.                                                    *)
C3_CheckAfterConnect ==
    (Done("read_resource") /\ IdentifierFails) =>
        /\ outcome.kind = "raise"
        /\ trace[1].ev = "connect"
        /\ Executes = 0
        /\ Opens = (IF drv.connect THEN 1 ELSE 0)
        /\ Closes = Opens

C3_Witness ==
    /\ Done("read_resource") /\ IdentifierFails
    /\ route(Path) = "statistic" /\ ~is_valid_identifier(Path[1])
    /\ drv.connect /\ Opens = 1

(* C4: on the DDL and statistic paths a statement is executed only if both  *)
(* schema and table passed is_valid_identifier, and it is the statement     *)
(* with exactly these two names in it; when either fails the request raises *)
(* and no statement is executed.                                            *)
C4_ExecuteOnlyValidated ==
    (Done("read_resource") /\ HasPrefix /\ route(Path) \in {"ddl", "statistic"}) =>
        /\ \A i \in 1..Len(trace) :
              trace[i].ev = "execute" =>
                 /\ is_valid_identifier(Path[1]) /\ is_valid_identifier(Path[2])
                 /\ trace[i].sql \in
                       {<<"show table ">> \o Path[1] \o <<".">> \o Path[2],
                        <<"ANALYZE ">> \o Path[1] \o <<".">> \o Path[2] \o <<";">>}
        /\ IdentifierFails => outcome.kind = "raise" /\ Executes = 0

C4_Witness ==
    /\ Done("read_resource") /\ IdentifierFails
    /\ route(Path) = "ddl" /\ is_valid_identifier(Path[1])
    /\ drv.connect /\ drv.execute /\ Executes = 0

(* C5 as stated: a URI with the prefix whose path is none of the four       *)
(* declared shapes gives no successful result: read_resource returns        *)
(* nothing to the caller and executes no statement.                         *)
C5_UndeclaredShapeFails ==
    (Done("read_resource") /\ HasPrefix /\ ~DeclaredShape(Path)) =>
        outcome.kind = "raise" /\ Executes = 0

(* C6 as stated: dispatch is by exact match of the whole path: each of the  *)
(* four operations runs if and only if the path has exactly its shape, and  *)
(* at most one of them runs.                                                *)
C6_ExactMatchDispatch ==
    (Done("read_resource") /\ HasPrefix /\ drv.connect) =>
        /\ Count(trace, "_get_schemas") = 1 <=> Path = <<kw_schemas>>
        /\ Count(trace, "_get_tables") = 1 <=> (Len(Path) = 2 /\ Path[2] = kw_tables)
        /\ Count(trace, "_get_table_ddl") = 1 <=> (Len(Path) = 3 /\ Path[3] = kw_ddl)
        /\ Count(trace, "_get_table_statistic") = 1
              <=> (Len(Path) = 3 /\ Path[3] = kw_statistic)
        /\ Count(trace, "_get_schemas") + Count(trace, "_get_tables")
              + Count(trace, "_get_table_ddl")
              + Count(trace, "_get_table_statistic") <= 1

(* C7: a tool call with a missing or empty required argument raises an      *)
(* argument error before any connection is attempted and without executing  *)
(* a statement.                                                             *)
C7_MissingArgumentFailsEarly ==
    (Done("call_tool") /\ ArgumentMissing) =>
        /\ outcome.kind = "raise" /\ outcome.exc = "ValueError"
        /\ trace = <<>>

C7_Witness ==
    /\ Done("call_tool") /\ req.name = "execute_sql"
    /\ req.args.sql = Given(<<>>) /\ drv.connect
    /\ outcome.kind = "raise"

\* one of the failures of a resource read
ResourceFailure ==
    \/ ~HasPrefix
    \/ ~drv.connect
    \/ IdentifierFails
    \/ Executes > 0 /\ ~drv.execute

(* C8: a resource read that fails (no prefix, connect fails, a name fails   *)
(* the identifier check, the warehouse rejects the statement) raises; it    *)
(* never returns a value for a failed request.                              *)
C8_ResourceFailuresRaise ==
    (Done("read_resource") /\ ResourceFailure) => outcome.kind = "raise"

C8_Witness ==
    /\ Done("read_resource") /\ Executes = 1 /\ ~drv.execute
    /\ outcome.exc = "RuntimeError"

\* the text of a value as C9 states it: a null is an empty field
ClaimedField(v) == IF v.t = "null" THEN <<>> ELSE str(v)

ClaimedText(columns, rows) ==
    join(<<NL>>,
         <<join(<<",">>, columns)>>
         \o [i \in 1..Len(rows) |->
                join(<<",">>, [j \in 1..Len(rows[i]) |-> ClaimedField(rows[i][j])])])

(* C9 as stated: the text of a result set is the comma-joined column names, *)
(* then one line per row in order, each the comma-joined text of its        *)
(* values, a null being an empty field.                                     *)
C9_NullRendersEmpty ==
    (/\ Done("call_tool") /\ ~ArgumentMissing /\ req.name # "analyze_table"
     /\ drv.connect /\ drv.execute /\ drv.fetch /\ ~drv.description.none) =>
        /\ outcome.kind = "return" /\ outcome.items = 1
        /\ outcome.text = ClaimedText(drv.description.cols, drv.rows)

\* the names C10 says are accepted
ClaimedIdentifier(name) ==
    /\ Len(name) > 0
    /\ name[1] \in IdentStart
    /\ \A i \in 2..Len(name) : name[i] \in IdentRest

(* C10 as stated: is_valid_identifier accepts a name if and only if it is   *)
(* non-empty, starts with a letter or underscore and goes on with letters,  *)
(* digits and underscores only; a valid name followed by a newline is       *)
(* rejected.                                                                *)
C10_AcceptsExactlyIdentifiers ==
    verdict # "none" => (verdict = "accept" <=> ClaimedIdentifier(ident))

\* the execute events of the trace, in order
ExecutedStatements ==
    LET idx == {i \in 1..Len(trace) : trace[i].ev = "execute"}
        RECURSIVE pick(_)
        pick(i) == IF i > Len(trace) THEN <<>>
                   ELSE IF i \in idx THEN <<trace[i]>> \o pick(i + 1)
                   ELSE pick(i + 1)
    IN  pick(1)

AnalyzeCall ==
    Done("call_tool") /\ req.name = "analyze_table" /\ ~ArgumentMissing

(* C11: an analyze_table call with non-empty schema and table executes      *)
(* exactly "ANALYZE " + schema + "." + table, whether or not the names are  *)
(* identifiers, and when the execution succeeds the answer is the           *)
(* confirmation text naming schema.table, whatever the cursor holds.        *)
C11_AnalyzeUnvalidated ==
    (AnalyzeCall /\ drv.connect) =>
        /\ ExecutedStatements =
              <<ExecEv(<<"ANALYZE ">> \o req.args.schema.val \o <<".">>
                          \o req.args.table.val, <<>>)>>
        /\ drv.execute =>
              /\ outcome.kind = "return" /\ outcome.items = 1
              /\ outcome.text = <<"Successfully analyzed table ">>
                                   \o req.args.schema.val \o <<".">>
                                   \o req.args.table.val

\* a table name that is no identifier, and a cursor without a description
C11_Witness ==
    /\ AnalyzeCall /\ drv.connect /\ drv.execute
    /\ ~is_valid_identifier(req.args.table.val)
    /\ drv.description.none
    /\ Executes = 1 /\ outcome.kind = "return"

\* what the request did is what dispatching the path p does
RoutedAs(p) ==
    LET r == route(p)
        valid == is_valid_identifier(p[1]) /\ is_valid_identifier(p[2])
        named == <<"Redshift Error: ", "Invalid schema or table name: ">>
                    \o p[1] \o <<".">> \o p[2]
    IN  /\ Count(trace, "_get_schemas") = (IF r = "schemas" THEN 1 ELSE 0)
        /\ Count(trace, "_get_tables") = (IF r = "tables" THEN 1 ELSE 0)
        /\ Count(trace, "_get_table_ddl") = (IF r = "ddl" THEN 1 ELSE 0)
        /\ Count(trace, "_get_table_statistic") = (IF r = "statistic" THEN 1 ELSE 0)
        /\ r = "tables" => ExecutedStatements = <<ExecEv(TablesSql, <<p[1]>>)>>
        /\ r = "ddl" =>
              IF valid
              THEN ExecutedStatements =
                      <<ExecEv(<<"show table ">> \o p[1] \o <<".">> \o p[2], <<>>)>>
              ELSE outcome.text = named
        /\ r = "statistic" =>
              IF valid
              THEN ExecutedStatements =
                      <<ExecEv(<<"ANALYZE ">> \o p[1] \o <<".">> \o p[2] \o <<";">>, <<>>)>>
              ELSE outcome.text = named
        /\ r = "none" => outcome.kind = "return" /\ outcome.none /\ Executes = 0

NoPrefixFailsEarly ==
    (Done("read_resource") /\ ~HasPrefix) =>
        outcome.kind = "raise" /\ outcome.exc = "ValueError" /\ trace = <<>>

(* C12 as stated: without the rs:// prefix the request fails with an        *)
(* invalid-URI error before any connection is opened, and with it the path  *)
(* that is routed is exactly the text that follows the prefix.              *)
C12_RoutesTextAfterPrefix ==
    /\ NoPrefixFailsEarly
    /\ (Done("read_resource") /\ HasPrefix /\ drv.connect) =>
          RoutedAs(split(SubSeq(req.uri, Len(rs_scheme) + 1, Len(req.uri)), "/"))

(* C12 as amended: without the prefix the request fails with ValueError     *)
(* before any connection is opened, and with it the path that is routed is  *)
(* the text that follows the first six characters of the URI: the five of   *)
(* the prefix and one more, which is dropped whatever it is.                *)
C12_RoutesTextAfterSixCharacters ==
    /\ NoPrefixFailsEarly
    /\ (Done("read_resource") /\ HasPrefix /\ drv.connect) =>
          RoutedAs(split(SubSeq(req.uri, Len(rs_scheme) + 2, Len(req.uri)), "/"))

\* a URI whose sixth character is no slash, routed to the table listing
C12_Witness ==
    /\ Done("read_resource") /\ HasPrefix /\ drv.connect
    /\ Len(req.uri) > Len(rs_scheme) /\ req.uri[Len(rs_scheme) + 1] # "/"
    /\ Count(trace, "_get_tables") = 1 /\ Executes = 1

---------------------------------------------------------------------------
(* The concurrent specification: several requests in flight.  The event     *)
(* loop runs a handler to its end once it has started it, since the bodies  *)
(* hold no await; here the driver calls of different handlers may also      *)
(* interleave in every order, which covers the event loop's schedules and   *)
(* those of handlers moved to threads.  A handler's driver calls are the    *)
(* trace of read_resource / call_tool for its request, done one at a time   *)
(* on the pool of connections.                                              *)

ConcCall(h, u, n, a, d) == [handler |-> h, uri |-> u, name |-> n, args |-> a, d |-> d]

OneColumn(rs) == Driver(TRUE, TRUE, TRUE, Columns(<< <<"a">> >>), rs)

ConcCalls ==
    {ConcCall("read_resource", rs_scheme \o <<"/">> \o kw_schemas, "", NoArgs,
              OneColumn(<< <<StrV(<<"x">>)>> >>)),
     ConcCall("read_resource",
              rs_scheme \o <<"/","s","1","/","t",";","/">> \o kw_ddl, "", NoArgs,
              OneColumn(<<>>)),
     ConcCall("read_resource", rs_scheme \o <<"/","s","1","/">> \o kw_tables, "",
              NoArgs, Driver(FALSE, TRUE, TRUE, Columns(<< <<"a">> >>), <<>>)),
     ConcCall("call_tool", <<>>, "execute_sql", Args(Given(<<"q">>), Absent, Absent),
              Driver(TRUE, FALSE, TRUE, NoDescription, <<>>)),
     ConcCall("call_tool", <<>>, "analyze_table",
              Args(Absent, Given(<<"s">>), Given(<<"t",";">>)),
              Driver(TRUE, TRUE, TRUE, NoDescription, <<>>))}

handle(c) ==
    IF c.handler = "read_resource" THEN read_resource(c.uri, c.d)
    ELSE call_tool(c.name, c.args, c.d)

\* a connection of the pool: who opened it, whether it is open, who executed
\* on it, who closed it and how often, and whether another connection was open
\* when it was opened
NewConn(t, cs) ==
    [opener |-> t, open |-> TRUE, autocommit |-> FALSE, users |-> {},
     closers |-> {}, closes |-> 0,
     overlapped |-> \E k \in 1..Len(cs) : cs[k].open]

\* a variant in which conn is one name shared by all handlers: the connection
\* opened last
conn_shared(ts, cs, t) == Len(cs)

\* conn is a local of the handler: each running handler has its own
conn_of(ts, cs, t) == ts[t].conn

\* what a driver call of task t does to the pool
apply_event(ts, cs, t, e) ==
    LET c == conn_of(ts, cs, t) IN
    IF e.ev = "open" THEN Append(cs, NewConn(t, cs))
    ELSE IF e.ev = "autocommit" THEN [cs EXCEPT ![c].autocommit = TRUE]
    ELSE IF e.ev = "execute" THEN [cs EXCEPT ![c].users = @ \cup {t}]
    ELSE IF e.ev = "close"
    THEN [cs EXCEPT ![c].open = FALSE, ![c].closers = @ \cup {t}, ![c].closes = @ + 1]
    ELSE cs

InitConc ==
    /\ pc = "idle"
    /\ req = NoReq
    /\ drv = NoDrv
    /\ outcome = NoOutcome
    /\ trace = <<>>
    /\ ident = <<>>
    /\ verdict = "none"
    /\ tasks = NoTasks
    /\ conns = <<>>

\* a request arrives and its handler is started
Arrive(t) ==
    /\ tasks[t].st = "free"
    /\ \E c \in ConcCalls :
          LET r == handle(c) IN
          tasks' = [tasks EXCEPT ![t] =
                       [st |-> "running", handler |-> c.handler, todo |-> r.trace,
                        conn |-> 0, kind |-> r.kind]]
    /\ UNCHANGED <<pc, req, drv, outcome, trace, ident, verdict, conns>>

\* the handler of task t makes its next driver call
StepTask(t) ==
    /\ tasks[t].st = "running"
    /\ tasks[t].todo # <<>>
    /\ LET e == Head(tasks[t].todo) IN
       /\ conns' = apply_event(tasks, conns, t, e)
       /\ tasks' = [tasks EXCEPT ![t].todo = Tail(@),
                                 ![t].conn = IF e.ev = "open" THEN Len(conns) + 1 ELSE @]
    /\ UNCHANGED <<pc, req, drv, outcome, trace, ident, verdict>>

\* the handler returns or raises
Finish(t) ==
    /\ tasks[t].st = "running"
    /\ tasks[t].todo = <<>>
    /\ tasks' = [tasks EXCEPT ![t].st = "finished"]
    /\ UNCHANGED <<pc, req, drv, outcome, trace, ident, verdict, conns>>

NextConc == \E t \in Tasks : Arrive(t) \/ StepTask(t) \/ Finish(t)

SpecConc == InitConc /\ [][NextConc]_vars

(* C13: however the requests in flight interleave, a statement is executed  *)
(* on a connection only by the request that opened it, a connection is      *)
(* closed only by the request that opened it and at most once, and once no  *)
(* request is running no connection is open.                                *)
C13_OwnConnectionOnly ==
    /\ \A c \in 1..Len(conns) :
          /\ conns[c].users \subseteq {conns[c].opener}
          /\ conns[c].closers \subseteq {conns[c].opener}
          /\ conns[c].closes <= 1
    /\ (\A t \in Tasks : tasks[t].st # "running") =>
          \A c \in 1..Len(conns) : ~conns[c].open

\* two requests have finished whose connections were open at the same time
C13_Witness ==
    /\ \A t \in Tasks : tasks[t].st = "finished"
    /\ Len(conns) >= 2
    /\ \E c \in 1..Len(conns) :
          conns[c].overlapped /\ conns[c].users # {} /\ ~conns[c].open

---------------------------------------------------------------------------
At(e) == {i \in 1..Len(trace) : trace[i].ev = e}
Before(a, b) == \A i \in At(a), j \in At(b) : i < j

(* C14: within a request the events come in the order open, autocommit on,  *)
(* execute, fetch and serialize, close: a statement is executed only on a   *)
(* connection that is open and has autocommit on, what is returned is built *)
(* before the close, which is the last thing done, and nothing is executed  *)
(* after it.                                                                *)
C14_OrderWithinRequest ==
    pc = "done" =>
        /\ Before("open", "autocommit") /\ Before("autocommit", "execute")
        /\ Before("execute", "fetch") /\ Before("fetch", "close")
        /\ Before("execute", "close") /\ Before("open", "close")
        /\ At("execute") # {} => At("open") # {} /\ At("autocommit") # {}
        /\ At("fetch") # {} => At("execute") # {}
        /\ At("close") # {} => At("open") # {} /\ At("close") = {Len(trace)}
        /\ (outcome.kind = "return" /\ ~outcome.none) => At("close") = {Len(trace)}

\* a request that did all five and returned text
C14_Witness ==
    /\ pc = "done" /\ outcome.kind = "return" /\ ~outcome.none
    /\ At("open") # {} /\ At("autocommit") # {} /\ At("execute") # {}
    /\ At("fetch") # {} /\ At("close") # {}

\* the request ended in failure: an exception, or the error text of call_tool
EndsInFailure ==
    \/ outcome.kind = "raise"
    \/ /\ req.handler = "call_tool" /\ outcome.kind = "return" /\ outcome.items = 1
       /\ outcome.text # <<>> /\ Head(outcome.text) = "Error executing query: "

(* C15: a request tries to connect at most once and executes at most one    *)
(* statement; after a failed connect or a failed statement it ends in       *)
(* failure with nothing connected, executed or fetched after that.          *)
C15_NoRetry ==
    pc = "done" =>
        /\ Count(trace, "connect") <= 1 /\ Opens <= 1 /\ Executes <= 1
        /\ (Count(trace, "connect") = 1 /\ ~drv.connect) =>
              EndsInFailure /\ trace = <<Ev("connect")>>
        /\ (Executes = 1 /\ ~drv.execute) =>
              /\ EndsInFailure
              /\ \A i \in At("execute"), j \in 1..Len(trace) :
                    j > i => trace[j].ev = "close"

\* a tool call whose statement the warehouse rejected
C15_Witness ==
    /\ Done("call_tool") /\ Executes = 1 /\ ~drv.execute
    /\ outcome.kind = "return" /\ Head(outcome.text) = "Error executing query: "

\* an execute_sql or get_execution_plan call whose statement was executed and,
\* where there is a result set, fetched
SqlCallSucceeded ==
    /\ Done("call_tool") /\ req.name \in {"execute_sql", "get_execution_plan"}
    /\ ~ArgumentMissing
    /\ drv.connect /\ drv.execute /\ (drv.description.none \/ drv.fetch)

(* C16: for an execute_sql or get_execution_plan call whose statement       *)
(* succeeded the answer is the generic success text naming the executed SQL *)
(* if and only if the cursor has no description; otherwise it is the result *)
(* set, the header line and one line per row, also when there is no row.    *)
C16_SuccessTextIffNoDescription ==
    SqlCallSucceeded =>
        LET sql == IF req.name = "execute_sql" THEN req.args.sql.val
                   ELSE <<"EXPLAIN ">> \o req.args.sql.val
            lines == split(outcome.text, NL)
        IN  /\ ExecutedStatements = <<ExecEv(sql, <<>>)>>
            /\ outcome.kind = "return" /\ outcome.items = 1
            /\ (outcome.text = <<"Successfully execute sql ">> \o sql)
                  <=> drv.description.none
            /\ ~drv.description.none =>
                  /\ Len(lines) = 1 + Len(drv.rows)
                  /\ lines[1] = join(<<",">>, drv.description.cols)

\* a result set with columns and no row
C16_Witness ==
    /\ SqlCallSucceeded /\ ~drv.description.none /\ drv.rows = <<>>
    /\ Len(drv.description.cols) = 2
    /\ outcome.text = join(<<",">>, drv.description.cols)

(* C17 as stated: a tool call whose name is none of execute_sql,            *)
(* analyze_table and get_execution_plan opens no connection and executes no *)
(* statement.                                                               *)
C17_UnknownToolDoesNothing ==
    (/\ Done("call_tool")
     /\ req.name \notin {"execute_sql", "analyze_table", "get_execution_plan"}) =>
        Count(trace, "connect") = 0 /\ Opens = 0 /\ Executes = 0

(* C18: on the table-listing path the schema segment goes to the driver     *)
(* only as the bound parameter: the one statement executed has the same     *)
(* text for every schema, the literal of _get_tables, though the schema is  *)
(* not checked by is_valid_identifier.                                      *)
C18_SchemaOnlyAsParameter ==
    (Done("read_resource") /\ HasPrefix /\ drv.connect /\ route(Path) = "tables") =>
        ExecutedStatements = <<ExecEv(TablesSql, <<Path[1]>>)>>

\* a schema segment that is no identifier
C18_Witness ==
    /\ Done("read_resource") /\ HasPrefix /\ drv.connect /\ route(Path) = "tables"
    /\ ~is_valid_identifier(Path[1]) /\ Path[1] # <<>>
    /\ Executes = 1 /\ outcome.kind = "return"

===========================================================================
